---- MODULE Spec2Model ----
(***************************************************************************)
(* Model of the search core of PostgreSQL-MCP-Serveur:                      *)
(*   - IntelligentSearchService.detectSearchMode   (mode router)           *)
(*   - EmbeddingService.generateEmbedding          (embedding cache + API) *)
(*   - HybridSearchService.search                  (hybrid fusion engine)  *)
(*   - IntelligentSearchService.search, analyzeQuery                       *)
(*   - CoreTools handlers working on a pooled client, pgvector_search      *)
(*   - the backfillEmbeddings script                                       *)
(* Strings are sequences of one-character strings, numbers that the code   *)
(* keeps as floats are fixed-point integers (similarity and text_rank in   *)
(* tenths, final_score in hundredths).                                     *)
(***************************************************************************)
EXTENDS Integers, Sequences, FiniteSets, TLC

VARIABLES
    userQuery,      \* router: the query string handed to detectSearchMode
    requestedMode,  \* router: the requested mode
    routed,         \* router: the value detectSearchMode returned ("none" before the call)
    apiKey,         \* EmbeddingService.apiKey is set (TRUE) or null (FALSE)
    cache,          \* EmbeddingService.cache: insertion-ordered Map, a sequence of [key, vec]
    pc,             \* position of the request in flight
    req,            \* parameters of the request in flight
    table,          \* the rows of the searched table as the store sees them for this request
    textRows,       \* textResults.rows of performHybridSearch
    queryVector,    \* the embedding obtained for the request
    results,        \* the value the request resolved with
    error,          \* the message of the error the request rejected with (<<>> = none)
    response,       \* outcome of the request's HTTP call to the embedding endpoint
    calls,          \* per-request call counters: embed, api, text, vector
    thrown,         \* the message of the error as the downstream component raised it
    callers,        \* concurrent callers of generateEmbedding: position and call state
    returned,       \* per cache key, the vectors successful cached calls resolved with
                    \* since the key was last removed from the cache
    tool,           \* the query tool: position, arguments, statement sent, outcome
    clients,        \* number of pool clients checked out by the tool handlers
    handler,        \* the CoreTools handler in flight (other than query): position, arguments
    vsearch,        \* the pgvector_search tool: position, arguments, statement, rows
    analysis,       \* the value analyzeQuery returned for userQuery ("none" before the call)
    backfill        \* the backfill script: position, counters, articles, batch in flight

routerVars == <<userQuery, requestedMode, routed>>
requestVars == <<pc, req, table, textRows, queryVector, results, error, response, calls,
                 thrown>>
searchVars == <<apiKey, cache, pc, req, table, textRows, queryVector, results, error,
               response, calls, thrown>>
embedVars == <<callers, returned>>
toolVars == <<tool, clients>>
jobVars == <<handler, vsearch, analysis, backfill>>
vars == <<userQuery, requestedMode, routed, apiKey, cache, pc, req, table, textRows,
          queryVector, results, error, response, calls, thrown, callers, returned,
          tool, clients, handler, vsearch, analysis, backfill>>

(***************************************************************************)
(* Bounds                                                                  *)
(***************************************************************************)
\* number of pieces a router query is assembled from
MaxPieces == 3
\* number of rows of the searched table
MaxRows == 3
\* EmbeddingService.maxCacheSize, scaled down from 1000
maxCacheSize == 2
\* number of concurrent callers of generateEmbedding
NumCallers == 2
\* number of pieces a SQL statement of the query tool is assembled from
MaxSqlPieces == 2
\* number of recent articles of enhanced_news
NumArticles == 3
\* BATCH_SIZE of the backfill script, scaled down from 10
BATCH_SIZE == 2
\* number of clients the pool hands out before pool.connect waits
MaxClients == 2

(***************************************************************************)
(* Strings                                                                 *)
(***************************************************************************)
Upper == <<"A","B","C","D","E","F","G","H","I","J","K","L","M",
           "N","O","P","Q","R","S","T","U","V","W","X","Y","Z">>
Lower == <<"a","b","c","d","e","f","g","h","i","j","k","l","m",
           "n","o","p","q","r","s","t","u","v","w","x","y","z">>

\* String.prototype.toLowerCase, one character
toLowerChar(c) ==
    IF \E i \in 1..Len(Upper) : Upper[i] = c
    THEN Lower[CHOOSE i \in 1..Len(Upper) : Upper[i] = c]
    ELSE c

toLowerCase(s) == [i \in 1..Len(s) |-> toLowerChar(s[i])]

\* the white space String.prototype.trim strips (space, tab, line feed, carriage return)
IsWhiteSpace(c) == c \in {" ", "\t", "\n", "\r"}

\* String.prototype.trim
trim(s) ==
    IF \A i \in 1..Len(s) : IsWhiteSpace(s[i])
    THEN <<>>
    ELSE LET first == CHOOSE i \in 1..Len(s) :
                          /\ ~IsWhiteSpace(s[i])
                          /\ \A j \in 1..(i-1) : IsWhiteSpace(s[j])
             last  == CHOOSE i \in 1..Len(s) :
                          /\ ~IsWhiteSpace(s[i])
                          /\ \A j \in (i+1)..Len(s) : IsWhiteSpace(s[j])
         IN  SubSeq(s, first, last)

\* p occurs in s at position i
OccursAt(s, p, i) ==
    /\ i + Len(p) - 1 <= Len(s)
    /\ \A k \in 1..Len(p) : s[i + k - 1] = p[k]

\* String.prototype.startsWith
startsWith(s, p) == OccursAt(s, p, 1)

\* String.prototype.includes
includes(s, p) == \E i \in 1..(Len(s) + 1) : OccursAt(s, p, i)

\* s.split(' ').length: one more than the number of space characters
splitSpaceLength(s) == Cardinality({i \in 1..Len(s) : s[i] = " "}) + 1

RECURSIVE Concat(_)
Concat(ss) == IF ss = <<>> THEN <<>> ELSE Head(ss) \o Concat(Tail(ss))

(***************************************************************************)
(* IntelligentSearchService.detectSearchMode                               *)
(***************************************************************************)
STest        == <<"t","e","s","t",":">>
SDebug       == <<"d","e","b","u","g",":">>
SRandom      == <<"r","a","n","d","o","m",":">>
SPerformance == <<"p","e","r","f","o","r","m","a","n","c","e">>
SBenchmark   == <<"b","e","n","c","h","m","a","r","k">>
SComment     == <<"c","o","m","m","e","n","t">>
SPourquoi    == <<"p","o","u","r","q","u","o","i">>
SQuelleEst   == <<"q","u","e","l","l","e"," ","e","s","t">>

\* IsTestQuery without the "random:" prefix
IsTestQuery_noRandom(query) ==
    \/ startsWith(query, STest)
    \/ startsWith(query, SDebug)
    \/ includes(query, SPerformance)
    \/ includes(query, SBenchmark)

\* the test/debug condition of detectSearchMode
IsTestQuery(query) ==
    \/ startsWith(query, STest)
    \/ startsWith(query, SDebug)
    \/ startsWith(query, SRandom)
    \/ includes(query, SPerformance)
    \/ includes(query, SBenchmark)

\* IsComplexQuery with the English interrogative "how" added to the phrase set
IsComplexQuery_english(query) ==
    \/ includes(query, <<"h","o","w">>)
    \/ includes(query, SComment)
    \/ includes(query, SPourquoi)
    \/ includes(query, SQuelleEst)
    \/ Len(query) > 50

\* the "requête complexe" condition of detectSearchMode
IsComplexQuery(query) ==
    \/ includes(query, SComment)
    \/ includes(query, SPourquoi)
    \/ includes(query, SQuelleEst)
    \/ Len(query) > 50

\* detectSearchMode with the test/debug rule evaluated before the explicit mode
detectSearchMode_markerFirst(q, requested) ==
    LET query == trim(toLowerCase(q))
    IN  IF IsTestQuery(query) THEN "text"
        ELSE IF requested # "auto" THEN requested
        ELSE IF splitSpaceLength(query) <= 2 THEN "text"
        ELSE IF IsComplexQuery(query) THEN "hybrid"
        ELSE "vector"

detectSearchMode(q, requested) ==
    LET query == trim(toLowerCase(q))
    IN  IF requested # "auto" THEN requested
        ELSE IF IsTestQuery(query) THEN "text"
        ELSE IF splitSpaceLength(query) <= 2 THEN "text"
        ELSE IF IsComplexQuery(query) THEN "hybrid"
        ELSE "vector"

Modes == {"auto", "text", "vector", "hybrid"}

\* the pieces router queries are assembled from
Filler51 == [i \in 1..51 |-> "x"]
Pieces ==
    { <<"a"," ">>, <<"a"," ","a"," ">>, <<"a","\t">>, <<" ">>,
      <<"T","e","s","t",":">>, SDebug, <<"R","A","N","D","O","M",":">>,
      SPerformance, <<"B","e","n","c","h","m","a","r","k">>,
      SComment, <<"P","o","u","r","q","u","o","i">>, SQuelleEst,
      Filler51 }

\* the queries of the end-to-end scenarios A, B, C
QueryAI == <<"A","I">>
QueryQuantum ==
    <<"H","o","w"," ","d","o","e","s"," ","q","u","a","n","t","u","m"," ",
    "c","o","m","p","u","t","i","n","g"," ","a","f","f","e","c","t"," ","c","r","y","p","t","o","g","r","a","p","h","y","?">>
QueryNeural ==
    <<"n","e","u","r","a","l"," ","n","e","t","w","o","r","k"," ","a","r","c","h","i","t","e","c","t","u","r","e","s">>
ScenarioQueries == { QueryAI, QueryQuantum, QueryNeural }

RECURSIVE PieceSeqs(_)
PieceSeqs(n) ==
    IF n = 0 THEN { <<>> }
    ELSE LET shorter == PieceSeqs(n - 1)
         IN  shorter \cup { Append(s, p) : s \in {t \in shorter : Len(t) = n - 1}, p \in Pieces }

RouterQueries == { Concat(ps) : ps \in PieceSeqs(MaxPieces) }

(***************************************************************************)
(* EmbeddingService                                                        *)
(***************************************************************************)
\* EmbeddingService.modelName ('qwen/qwen3-embedding-8b', abbreviated)
modelName == <<"q">>
\* default of the dimensions option of generateEmbedding
DefaultDimensions == 1536

\* cacheKey = `${model}:${normalizedText}`
cacheKey(model, normalizedText) == model \o <<":">> \o normalizedText

\* Map.prototype.has / get on the insertion-ordered cache
cacheHas(c, key) == \E i \in 1..Len(c) : c[i].key = key
cacheGet(c, key) == c[CHOOSE i \in 1..Len(c) : c[i].key = key].vec

\* Map.prototype.set that keeps the vector of an existing key
mapSet_keepFirst(c, key, vec) ==
    IF cacheHas(c, key)
    THEN c
    ELSE Append(c, [key |-> key, vec |-> vec])

\* Map.prototype.set: an existing key keeps its position, a new key goes last
mapSet(c, key, vec) ==
    IF cacheHas(c, key)
    THEN [i \in 1..Len(c) |-> IF c[i].key = key THEN [key |-> key, vec |-> vec] ELSE c[i]]
    ELSE Append(c, [key |-> key, vec |-> vec])

\* addToCache emptying the cache when it is full
addToCache_evictAll(c, key, vec) ==
    LET evicted == IF Len(c) >= maxCacheSize /\ Len(c) > 0 THEN <<>> ELSE c
    IN  mapSet(evicted, key, vec)

\* addToCache evicting the newest key
addToCache_evictLast(c, key, vec) ==
    LET evicted == IF Len(c) >= maxCacheSize /\ Len(c) > 0
                   THEN SubSeq(c, 1, Len(c) - 1) ELSE c
    IN  mapSet(evicted, key, vec)

\* addToCache without the eviction of the oldest key
addToCache_noEvict(c, key, vec) == mapSet(c, key, vec)

\* EmbeddingService.addToCache
addToCache(c, key, vec) ==
    LET evicted == IF Len(c) >= maxCacheSize /\ Len(c) > 0 THEN Tail(c) ELSE c
    IN  mapSet(evicted, key, vec)

\* new Array(dimensions).fill(0)
zeroVector(dimensions) == [i \in 1..dimensions |-> 0]

\* outcomes of axios.post and of the check of response.data in generateWithAPI
ApiFailures == {"network", "non2xx", "nodata"}

\* the Error generateWithAPI throws: `API Error: ${msg}`
apiErrorMessage(outcome) ==
    <<"API Error: ",
      CASE outcome = "network" -> "Network Error"
        [] outcome = "non2xx"  -> "Request failed with status code 401"
        [] OTHER               -> "Invalid API Response format: No embedding data found">>

\* the Error generateEmbedding throws when apiKey is null
noApiMessage == <<"CRITICAL: No API Configuration found. Mock mode is disabled.">>

\* embedSync testing the API key before the text: an empty text without key throws
embedSync_keyFirst(c, key, text, model, useCache, dimensions) ==
    LET normalizedText == trim(text)
    IN  IF ~key
        THEN [kind |-> "throw", vec |-> <<>>, lookup |-> FALSE]
        ELSE IF normalizedText = <<>>
        THEN [kind |-> "value", vec |-> zeroVector(dimensions), lookup |-> FALSE]
        ELSE IF useCache /\ cacheHas(c, cacheKey(model, normalizedText))
        THEN [kind |-> "value", vec |-> cacheGet(c, cacheKey(model, normalizedText)),
              lookup |-> TRUE]
        ELSE [kind |-> "await", vec |-> <<>>, lookup |-> TRUE]

\* embedSync without the cache check: every non-empty text goes to the endpoint
embedSync_noCacheCheck(c, key, text, model, useCache, dimensions) ==
    LET normalizedText == trim(text)
    IN  IF normalizedText = <<>>
        THEN [kind |-> "value", vec |-> zeroVector(dimensions), lookup |-> FALSE]
        ELSE IF key
        THEN [kind |-> "await", vec |-> <<>>, lookup |-> FALSE]
        ELSE [kind |-> "throw", vec |-> <<>>, lookup |-> FALSE]

\* embedSync with a mock fallback: without API key a zero vector is returned
embedSync_mock(c, key, text, model, useCache, dimensions) ==
    LET normalizedText == trim(text)
    IN  IF normalizedText = <<>>
        THEN [kind |-> "value", vec |-> zeroVector(dimensions), lookup |-> FALSE]
        ELSE IF useCache /\ cacheHas(c, cacheKey(model, normalizedText))
        THEN [kind |-> "value", vec |-> cacheGet(c, cacheKey(model, normalizedText)),
              lookup |-> TRUE]
        ELSE IF key
        THEN [kind |-> "await", vec |-> <<>>, lookup |-> TRUE]
        ELSE [kind |-> "value", vec |-> zeroVector(dimensions), lookup |-> TRUE]

\* generateEmbedding up to its first await: what the call does before any I/O
\*   kind "value" : resolved without I/O (empty text, cache hit)
\*   kind "await" : axios.post issued
\*   kind "throw" : rejected (no API key)
embedSync(c, key, text, model, useCache, dimensions) ==
    LET normalizedText == trim(text)
    IN  IF normalizedText = <<>>
        THEN [kind |-> "value", vec |-> zeroVector(dimensions), lookup |-> FALSE]
        ELSE IF useCache /\ cacheHas(c, cacheKey(model, normalizedText))
        THEN [kind |-> "value", vec |-> cacheGet(c, cacheKey(model, normalizedText)),
              lookup |-> TRUE]
        ELSE IF key
        THEN [kind |-> "await", vec |-> <<>>, lookup |-> TRUE]
        ELSE [kind |-> "throw", vec |-> <<>>, lookup |-> TRUE]

(***************************************************************************)
(* The store: rows of the searched table as one request's queries see them *)
(***************************************************************************)
\* (similarity, text_rank) of a row that matches the full-text query, in tenths
MatchPairs == { <<9, 5>>, <<8, 6>>, <<7, 4>>, <<7, 10>> }
\* similarity of a row that does not match the full-text query
Similarities == {7, 8, 9}

RowKinds ==
    { [match |-> TRUE, similarity |-> p[1], text_rank |-> p[2]] : p \in MatchPairs }
    \cup { [match |-> FALSE, similarity |-> s, text_rank |-> 0] : s \in Similarities }

Tables == [1..MaxRows -> RowKinds]

\* a small table set for the specifications that are not about the fusion
SmallTables ==
    [1..2 -> { [match |-> TRUE, similarity |-> 9, text_rank |-> 5],
               [match |-> FALSE, similarity |-> 9, text_rank |-> 0] }]

NoTable == << >>

\* the orders in which the store may return the rows ids under ORDER BY score DESC
OrderedBy(ids, score) ==
    { s \in [1..Cardinality(ids) -> ids] :
        /\ \A i, j \in 1..Cardinality(ids) : i # j => s[i] # s[j]
        /\ \A i, j \in 1..Cardinality(ids) : i < j => score[s[i]] >= score[s[j]] }

Min(a, b) == IF a <= b THEN a ELSE b

\* LIMIT n
Limit(s, n) == SubSeq(s, 1, Min(n, Len(s)))

\* the text query of performHybridSearch: WHERE ... @@ ..., ORDER BY text_rank DESC, LIMIT
TextQueryResults(t, textLimit) ==
    LET ids == {id \in DOMAIN t : t[id].match}
        rank == [id \in ids |-> t[id].text_rank]
    IN  { Limit([i \in 1..Len(s) |-> [id |-> s[i], text_rank |-> t[s[i]].text_rank]], textLimit) :
            s \in OrderedBy(ids, rank) }

\* prefilterIsEmpty without the short-circuit
prefilterIsEmpty_never(rows) == FALSE

\* textResults.rows.length === 0: the pre-filter short-circuit test
prefilterIsEmpty(rows) == Len(rows) = 0

\* text_rank of key id in the pre-filter rows
textRankOf(rows, id) == rows[CHOOSE i \in 1..Len(rows) : rows[i].id = id].text_rank

\* HybridVectorQueryResults without the JOIN on the pre-filter keys
HybridVectorQueryResults_noJoin(t, rows, topK) ==
    LET sim == [id \in DOMAIN t |-> t[id].similarity]
        rankOf(id) == IF \E i \in 1..Len(rows) : rows[i].id = id
                      THEN textRankOf(rows, id) ELSE 0
    IN  { Limit([i \in 1..Len(s) |-> [id |-> s[i], similarity |-> t[s[i]].similarity,
                                      text_rank |-> rankOf(s[i])]], topK) :
            s \in OrderedBy(DOMAIN t, sim) }

\* the vector query of performHybridSearch: JOIN on the pre-filter keys,
\* ORDER BY distance (= similarity DESC), LIMIT topK
\* (the select list names t.text_rank although the VALUES list is aliased t(id, rank);
\* the column is taken to carry the pre-filter text_rank of the joined key, and a
\* store that rejects the statement is the QueryFail step)
HybridVectorQueryResults(t, rows, topK) ==
    LET ids == {id \in DOMAIN t : \E i \in 1..Len(rows) : rows[i].id = id}
        sim == [id \in ids |-> t[id].similarity]
    IN  { Limit([i \in 1..Len(s) |-> [id |-> s[i], similarity |-> t[s[i]].similarity,
                                      text_rank |-> textRankOf(rows, s[i])]], topK) :
            s \in OrderedBy(ids, sim) }

\* the vector query of performVectorSearch: every row, ORDER BY distance, LIMIT topK
PlainVectorQueryResults(t, topK) ==
    LET sim == [id \in DOMAIN t |-> t[id].similarity]
    IN  { Limit([i \in 1..Len(s) |-> [id |-> s[i], similarity |-> t[s[i]].similarity]], topK) :
            s \in OrderedBy(DOMAIN t, sim) }

(***************************************************************************)
(* HybridSearchService.performHybridSearch, step 4: fusion and ranking     *)
(***************************************************************************)
\* finalScore with the two weights exchanged
finalScore_swapped(row) == (row.similarity * 3) + (row.text_rank * 7)

\* (row.similarity * 0.7) + (row.text_rank * 0.3), in hundredths
finalScore(row) == (row.similarity * 7) + (row.text_rank * 3)

\* vectorResults.rows.map((row, index) => ({...row, rank: index + 1, final_score: ...}))
mergeRows(rows) ==
    [i \in 1..Len(rows) |->
        [id |-> rows[i].id, similarity |-> rows[i].similarity, text_rank |-> rows[i].text_rank,
         rank |-> i, final_score |-> finalScore(rows[i])]]

\* one insertion of the stable sort with comparator (a, b) => b.final_score - a.final_score
RECURSIVE insertByScore(_, _)
insertByScore(sorted, r) ==
    IF sorted = <<>> THEN <<r>>
    ELSE IF Head(sorted).final_score < r.final_score THEN <<r>> \o sorted
    ELSE <<Head(sorted)>> \o insertByScore(Tail(sorted), r)

\* sortByScore that leaves the list in vector-distance order
sortByScore_unsorted(s) == s

\* Array.prototype.sort((a, b) => b.final_score - a.final_score), stable
RECURSIVE sortByScore(_)
sortByScore(s) ==
    IF s = <<>> THEN <<>>
    ELSE insertByScore(sortByScore(SubSeq(s, 1, Len(s) - 1)), s[Len(s)])

\* the results performHybridSearch returns for the rows of the vector query
fuse(rows) == sortByScore(mergeRows(rows))

(***************************************************************************)
(* Requests                                                                *)
(***************************************************************************)
Texts == { <<" ">>, <<"A","I">>, <<" ","A","I">>, <<"a"," ","b">> }
Models == { modelName, <<"e">> }
\* vectors the embedding endpoint may answer with
Vectors == { <<1, 2>>, <<3, 1>> }
\* values of the dimensions option
Dimensions == {2, DefaultDimensions}
\* values of topK (10 is the default of HybridSearchService.search)
TopKs == {2, 10}
\* values of textLimit (100 is the default of HybridSearchService.search)
TextLimits == {2, 100}

NoRequest ==
    [entry |-> "none", query |-> <<>>, model |-> <<>>, useCache |-> FALSE, dimensions |-> 0,
     topK |-> 0, textLimit |-> 0, hybridMode |-> FALSE, mode |-> "none",
     detectedMode |-> "none"]
NoCalls == [embed |-> 0, api |-> 0, text |-> 0, vector |-> 0]

\* the catch of HybridSearchService.search: new Error(`Échec de recherche: ${error.message}`)
searchErrorMessage(msg) == <<"Échec de recherche: ">> \o msg

\* the message of an error the store raises for a query
storeErrorMessage == <<"store error">>

\* rejection without any catch: the downstream error reaches the caller as it is
rejection_rethrow(r, msg) == msg

\* the message request r rejects with when msg is thrown inside it: a direct
\* generateEmbedding call rethrows, HybridSearchService.search wraps once,
\* IntelligentSearchService.search wraps once what its callee rejects with (its
\* own textSearch / performVectorSearch calls, or HybridSearchService.search)
rejection(r, msg) ==
    CASE r.entry = "hybrid" -> searchErrorMessage(msg)
      [] r.entry = "intelligent" ->
            IF r.detectedMode = "hybrid"
            THEN searchErrorMessage(searchErrorMessage(msg))
            ELSE searchErrorMessage(msg)
      [] OTHER -> msg

\* firstStage sending the text mode through the hybrid pipeline
firstStage_textAsHybrid(detectedMode) ==
    CASE detectedMode = "text" -> "prefilter"
      [] detectedMode = "hybrid" -> "prefilter"
      [] OTHER -> "embedding"

\* the switch of IntelligentSearchService.search: the first stage of each mode
\*   text   : hybridSearch.textSearch, one full-text query
\*   hybrid : hybridSearch.search with hybridMode true, the text pre-filter
\*   vector : performVectorSearch, generateEmbedding then the vector query
firstStage(detectedMode) ==
    CASE detectedMode = "text" -> "text"
      [] detectedMode = "hybrid" -> "prefilter"
      [] OTHER -> "embedding"

\* the metadata IntelligentSearchService.search returns with the results of
\* request r: the initial record overridden by the branch of the switch
\* (the text branch sets no flag, the vector and hybrid branches set
\* embeddingGenerated: true after their callee has resolved; fromCache of
\* performVectorSearch is the constant false)
searchMetadata(r) ==
    [query |-> r.query,
     detectedMode |-> r.detectedMode,
     actualMode |-> r.detectedMode,
     embeddingGenerated |-> r.detectedMode \in {"vector", "hybrid"},
     cacheHit |-> FALSE]

\* queries of the intelligent search: auto routes them to text, vector and hybrid
SearchQueries ==
    { <<"A","I">>, <<"a"," ","b"," ","c">>,
      <<"c","o","m","m","e","n","t"," ","a"," ","b">> }

\* concurrent callers of generateEmbedding
Callers == 1..NumCallers
IdleCaller ==
    [pc |-> "idle", query |-> <<>>, model |-> <<>>, useCache |-> FALSE, api |-> 0,
     result |-> <<>>]

\* texts of the concurrent calls: two spellings of one text, and two other texts
EmbedTexts == { <<"A","I">>, <<" ","A","I">>, <<"a"," ","b">>, <<"b">> }

\* the cache keys of the texts and models of the model
CacheKeys == { cacheKey(m, trim(t)) : m \in Models, t \in Texts \cup EmbedTexts }

\* the query tool before a call
IdleTool ==
    [pc |-> "idle", sql |-> <<>>, validateOnly |-> FALSE, readonly |-> FALSE,
     limit |-> <<>>, connected |-> FALSE, sent |-> <<>>, outcome |-> "none"]

\* a CoreTools handler before a call
IdleHandler ==
    [pc |-> "idle", name |-> "none", variant |-> "none", client |-> FALSE, awaits |-> 0,
     releases |-> 0,
     outcome |-> "none"]

\* the pgvector_search tool before a call
IdleSearch ==
    [pc |-> "idle", distanceMetric |-> "none", useRandomVector |-> FALSE,
     queryVector |-> FALSE, topK |-> 0, client |-> "none", similarity |-> "none",
     rows |-> <<>>, outcome |-> "none"]

\* no analyzeQuery call yet
NoAnalysis == [mode |-> "none", confidence |-> 0, reasoning |-> {}, suggestions |-> {}]

\* the backfill script before it is started
NoBackfill ==
    [pc |-> "idle", totalToProcess |-> 0, processed |-> 0, errors |-> 0,
     embedding |-> <<>>, rows |-> <<>>, state |-> <<>>, failed |-> {}, attempted |-> {}]

Init ==
    /\ userQuery = <<>>
    /\ requestedMode = "auto"
    /\ routed = "none"
    /\ apiKey \in BOOLEAN
    /\ cache = <<>>
    /\ pc = "idle"
    /\ req = NoRequest
    /\ table = NoTable
    /\ textRows = <<>>
    /\ queryVector = <<>>
    /\ results = <<>>
    /\ error = <<>>
    /\ response = "none"
    /\ calls = NoCalls
    /\ thrown = <<>>
    /\ callers = [p \in Callers |-> IdleCaller]
    /\ returned = [k \in CacheKeys |-> {}]
    /\ tool = IdleTool
    /\ clients = 0
    /\ handler = IdleHandler
    /\ vsearch = IdleSearch
    /\ analysis = NoAnalysis
    /\ backfill = NoBackfill

\* the caller of generateEmbedding continues with the value e of embedSync, for request r
\* (the request state other than pc, queryVector, results, error is set by the caller)
ContinueWithEmbedding(r, e) ==
    CASE e.kind = "await" ->
            /\ pc' = "api"
            /\ UNCHANGED <<queryVector, results, error, thrown>>
      [] e.kind = "throw" ->
            /\ pc' = "failed"
            /\ error' = rejection(r, noApiMessage)
            /\ thrown' = noApiMessage
            /\ UNCHANGED <<queryVector, results>>
      [] OTHER ->
            IF r.entry = "embed"
            THEN /\ pc' = "done"
                 /\ results' = e.vec
                 /\ UNCHANGED <<queryVector, error, thrown>>
            ELSE /\ pc' = "vector"
                 /\ queryVector' = e.vec
                 /\ UNCHANGED <<results, error, thrown>>

\* a caller invokes embeddingService.generateEmbedding(text, {model, useCache, dimensions})
GenerateEmbedding(texts, models) ==
    \E text \in texts, model \in models, useCache \in BOOLEAN, dimensions \in Dimensions :
        LET r == [NoRequest EXCEPT !.entry = "embed", !.query = text, !.model = model,
                                   !.useCache = useCache, !.dimensions = dimensions]
            e == embedSync(cache, apiKey, text, model, useCache, dimensions)
        IN  /\ pc = "idle"
            /\ req' = r
            /\ calls' = [NoCalls EXCEPT !.embed = 1,
                                        !.api = IF e.kind = "await" THEN 1 ELSE 0]
            /\ ContinueWithEmbedding(r, e)
            /\ UNCHANGED <<apiKey, cache, table, textRows, response>>
            /\ UNCHANGED <<routerVars, embedVars, toolVars, jobVars>>

\* the HTTP call of generateWithAPI completes: generateEmbedding resumes
ApiReturn(vectors) ==
    /\ pc = "api"
    /\ \E vec \in vectors :
        /\ response' = "ok"
        /\ cache' = IF req.useCache
                    THEN addToCache(cache, cacheKey(req.model, trim(req.query)), vec)
                    ELSE cache
        /\ IF req.entry = "embed"
           THEN /\ pc' = "done"
                /\ results' = vec
                /\ UNCHANGED queryVector
           ELSE /\ pc' = "vector"
                /\ queryVector' = vec
                /\ UNCHANGED results
    /\ UNCHANGED <<apiKey, req, table, textRows, error, calls, thrown>>
    /\ UNCHANGED <<routerVars, embedVars, toolVars, jobVars>>

\* the HTTP call fails, or the response carries no embedding data
ApiFail ==
    /\ pc = "api"
    /\ \E outcome \in ApiFailures :
        /\ response' = outcome
        /\ error' = rejection(req, apiErrorMessage(outcome))
        /\ thrown' = apiErrorMessage(outcome)
    /\ pc' = "failed"
    /\ UNCHANGED <<apiKey, cache, req, table, textRows, queryVector, results, calls>>
    /\ UNCHANGED <<routerVars, embedVars, toolVars, jobVars>>

\* a caller invokes hybridSearchService.search(query, {topK, textLimit, hybridMode, useCache})
HybridSearch(queries, textLimits) ==
    \E query \in queries, topK \in TopKs, textLimit \in textLimits,
       hybridMode \in BOOLEAN, useCache \in BOOLEAN :
        LET r == [NoRequest EXCEPT !.entry = "hybrid", !.query = query, !.model = modelName,
                                   !.useCache = useCache, !.dimensions = DefaultDimensions,
                                   !.topK = topK, !.textLimit = textLimit,
                                   !.hybridMode = hybridMode]
            e == embedSync(cache, apiKey, query, modelName, useCache, DefaultDimensions)
        IN  /\ pc = "idle"
            /\ req' = r
            /\ IF hybridMode
               THEN \* performHybridSearch: the text query is issued
                    /\ pc' = "prefilter"
                    /\ calls' = NoCalls
                    /\ UNCHANGED <<queryVector, results, error, thrown>>
               ELSE \* performVectorSearch: generateEmbedding is called first
                    /\ calls' = [NoCalls EXCEPT !.embed = 1,
                                                !.api = IF e.kind = "await" THEN 1 ELSE 0]
                    /\ ContinueWithEmbedding(r, e)
            /\ UNCHANGED <<apiKey, cache, table, textRows, response>>
            /\ UNCHANGED <<routerVars, embedVars, toolVars, jobVars>>

\* the text query of performHybridSearch returns its rows
PrefilterReturn(tables) ==
    /\ pc = "prefilter"
    /\ \E t \in tables : \E rows \in TextQueryResults(t, req.textLimit) :
        LET e == embedSync(cache, apiKey, req.query, req.model, req.useCache, req.dimensions)
        IN  /\ table' = t
            /\ textRows' = rows
            /\ IF prefilterIsEmpty(rows)
               THEN /\ pc' = "done"
                    /\ results' = <<>>
                    /\ calls' = [calls EXCEPT !.text = @ + 1]
                    /\ UNCHANGED <<queryVector, error, thrown>>
               ELSE /\ calls' = [calls EXCEPT !.text = @ + 1, !.embed = @ + 1,
                                              !.api = IF e.kind = "await" THEN @ + 1 ELSE @]
                    /\ ContinueWithEmbedding(req, e)
    /\ UNCHANGED <<apiKey, cache, req, response>>
    /\ UNCHANGED <<routerVars, embedVars, toolVars, jobVars>>

\* QueryFail with a retry: the rejected query is issued again
QueryFail_retry ==
    /\ pc \in {"prefilter", "vector", "text"}
    /\ calls.text + calls.vector < 2
    /\ calls' = IF pc = "vector" THEN [calls EXCEPT !.vector = @ + 1]
                                 ELSE [calls EXCEPT !.text = @ + 1]
    /\ thrown' = storeErrorMessage
    /\ UNCHANGED <<pc, error>>
    /\ UNCHANGED <<apiKey, cache, req, table, textRows, queryVector, results, response>>
    /\ UNCHANGED <<routerVars, embedVars, toolVars, jobVars>>

\* a store query is rejected (text pre-filter, full-text query or vector query);
\* acquiring the connection is part of the query
QueryFail ==
    /\ pc \in {"prefilter", "vector", "text"}
    /\ calls' = IF pc = "vector" THEN [calls EXCEPT !.vector = @ + 1]
                                 ELSE [calls EXCEPT !.text = @ + 1]
    /\ pc' = "failed"
    /\ error' = rejection(req, storeErrorMessage)
    /\ thrown' = storeErrorMessage
    /\ UNCHANGED <<apiKey, cache, req, table, textRows, queryVector, results, response>>
    /\ UNCHANGED <<routerVars, embedVars, toolVars, jobVars>>

\* the vector query returns its rows: fusion and ranking, or the plain vector result
VectorReturn(tables) ==
    /\ pc = "vector"
    /\ IF req.hybridMode
       THEN /\ \E rows \in HybridVectorQueryResults(table, textRows, req.topK) :
                results' = fuse(rows)
            /\ UNCHANGED table
       ELSE \E t \in tables : \E rows \in PlainVectorQueryResults(t, req.topK) :
                /\ table' = t
                /\ results' = rows
    /\ pc' = "done"
    /\ calls' = [calls EXCEPT !.vector = @ + 1]
    /\ UNCHANGED <<apiKey, cache, req, textRows, queryVector, error, response, thrown>>
    /\ UNCHANGED <<routerVars, embedVars, toolVars, jobVars>>

\* the caller has its answer; the service is ready for the next request
Return ==
    /\ pc \in {"done", "failed"}
    /\ pc' = "idle"
    /\ req' = NoRequest
    /\ table' = NoTable
    /\ textRows' = <<>>
    /\ queryVector' = <<>>
    /\ results' = <<>>
    /\ error' = <<>>
    /\ response' = "none"
    /\ calls' = NoCalls
    /\ thrown' = <<>>
    /\ UNCHANGED <<apiKey, cache>>
    /\ UNCHANGED <<routerVars, embedVars, toolVars, jobVars>>

\* a caller invokes intelligentSearchService.search(query, {mode, topK, enableCache})
IntelligentSearch(queries) ==
    \E query \in queries, mode \in Modes, topK \in TopKs, enableCache \in BOOLEAN :
        LET detectedMode == detectSearchMode(query, mode)
            r == [NoRequest EXCEPT !.entry = "intelligent", !.query = query,
                                   !.model = modelName, !.useCache = enableCache,
                                   !.dimensions = DefaultDimensions, !.topK = topK,
                                   !.textLimit = 100,
                                   !.hybridMode = (detectedMode = "hybrid"),
                                   !.mode = mode, !.detectedMode = detectedMode]
            e == embedSync(cache, apiKey, query, modelName, enableCache, DefaultDimensions)
        IN  /\ pc = "idle"
            /\ req' = r
            /\ IF firstStage(detectedMode) = "embedding"
               THEN /\ calls' = [NoCalls EXCEPT !.embed = 1,
                                                !.api = IF e.kind = "await" THEN 1 ELSE 0]
                    /\ ContinueWithEmbedding(r, e)
               ELSE /\ pc' = firstStage(detectedMode)
                    /\ calls' = NoCalls
                    /\ UNCHANGED <<queryVector, results, error, thrown>>
            /\ UNCHANGED <<apiKey, cache, table, textRows, response>>
            /\ UNCHANGED <<routerVars, embedVars, toolVars, jobVars>>

\* the full-text query of textSearch returns its rows
TextReturn(tables) ==
    /\ pc = "text"
    /\ \E t \in tables : \E rows \in TextQueryResults(t, req.topK) :
        /\ table' = t
        /\ results' = rows
    /\ pc' = "done"
    /\ calls' = [calls EXCEPT !.text = @ + 1]
    /\ UNCHANGED <<apiKey, cache, req, textRows, queryVector, error, response, thrown>>
    /\ UNCHANGED <<routerVars, embedVars, toolVars, jobVars>>

\* the embedding service and the hybrid search service, small tables
Next ==
    \/ GenerateEmbedding(Texts \cup { <<>> }, Models)
    \/ ApiReturn(Vectors)
    \/ ApiFail
    \/ HybridSearch(Texts, TextLimits)
    \/ PrefilterReturn(SmallTables)
    \/ QueryFail
    \/ VectorReturn(SmallTables)
    \/ Return

Spec == Init /\ [][Next]_vars

\* the hybrid search service alone, one query text, every table
FusionNext ==
    \/ HybridSearch({ <<"A","I">> }, TextLimits)
    \/ PrefilterReturn(Tables)
    \/ ApiReturn({ <<1, 2>> })
    \/ ApiFail
    \/ QueryFail
    \/ VectorReturn(Tables)
    \/ Return

SpecFusion == Init /\ [][FusionNext]_vars

\* the intelligent search service over the hybrid search service and the embedding
\* service, small tables
SearchNext ==
    \/ IntelligentSearch(SearchQueries)
    \/ TextReturn(SmallTables)
    \/ PrefilterReturn(SmallTables)
    \/ ApiReturn(Vectors)
    \/ ApiFail
    \/ QueryFail
    \/ VectorReturn(SmallTables)
    \/ Return

SpecSearch == Init /\ [][SearchNext]_vars

(***************************************************************************)
(* Concurrent calls of generateEmbedding on the shared EmbeddingService    *)
(***************************************************************************)
\* the cache key of the call of caller state c
callerKey(c) == cacheKey(c.model, trim(c.query))

\* the key addToCache removes when it writes to cache c ("none": no key)
evictedKey(c) == IF Len(c) >= maxCacheSize /\ Len(c) > 0 THEN c[1].key ELSE <<"none">>

\* the record of resolved vectors after addToCache(c, key, vec)
recordWrite(r, c, key, vec) ==
    [k \in DOMAIN r |->
        IF k = key THEN (IF evictedKey(c) = key THEN {} ELSE r[k]) \cup {vec}
        ELSE IF k = evictedKey(c) THEN {}
        ELSE r[k]]

\* caller p invokes generateEmbedding(text, {model, useCache})
EmbedCall(texts, models) ==
    \E p \in Callers, text \in texts, model \in models, useCache \in BOOLEAN :
        LET e == embedSync(cache, apiKey, text, model, useCache, DefaultDimensions)
        IN  /\ callers[p].pc = "idle"
            /\ callers' = [callers EXCEPT ![p] =
                    [pc |-> CASE e.kind = "await" -> "api"
                              [] e.kind = "throw" -> "failed"
                              [] OTHER -> "done",
                     query |-> text, model |-> model, useCache |-> useCache,
                     api |-> IF e.kind = "await" THEN 1 ELSE 0,
                     result |-> e.vec]]
            /\ UNCHANGED <<apiKey, cache, returned>>
            /\ UNCHANGED <<requestVars, routerVars, toolVars, jobVars>>

\* the HTTP call of caller p completes: the vector is cached and returned
EmbedApiReturn(vectors) ==
    \E p \in Callers, vec \in vectors :
        /\ callers[p].pc = "api"
        /\ IF callers[p].useCache
           THEN /\ cache' = addToCache(cache, callerKey(callers[p]), vec)
                /\ returned' = recordWrite(returned, cache, callerKey(callers[p]), vec)
           ELSE UNCHANGED <<cache, returned>>
        /\ callers' = [callers EXCEPT ![p].pc = "done", ![p].result = vec]
        /\ UNCHANGED apiKey
        /\ UNCHANGED <<requestVars, routerVars, toolVars, jobVars>>

\* the HTTP call of caller p fails, or carries no embedding data
EmbedApiFail ==
    \E p \in Callers :
        /\ callers[p].pc = "api"
        /\ callers' = [callers EXCEPT ![p].pc = "failed"]
        /\ UNCHANGED <<apiKey, cache, returned>>
        /\ UNCHANGED <<requestVars, routerVars, toolVars, jobVars>>

\* caller p has its answer
EmbedReturn ==
    \E p \in Callers :
        /\ callers[p].pc \in {"done", "failed"}
        /\ callers' = [callers EXCEPT ![p] = IdleCaller]
        /\ UNCHANGED <<apiKey, cache, returned>>
        /\ UNCHANGED <<requestVars, routerVars, toolVars, jobVars>>

\* EmbeddingService.clearCache
clearCache ==
    /\ cache # <<>>
    /\ cache' = <<>>
    /\ returned' = [k \in DOMAIN returned |-> {}]
    /\ UNCHANGED <<apiKey, callers>>
    /\ UNCHANGED <<requestVars, routerVars, toolVars, jobVars>>

EmbedNext ==
    \/ EmbedCall(EmbedTexts, {modelName})
    \/ EmbedApiReturn(Vectors)
    \/ EmbedApiFail
    \/ EmbedReturn
    \/ clearCache

SpecEmbed == Init /\ [][EmbedNext]_vars

(***************************************************************************)
(* The query tool of CoreTools: read-only validation, automatic LIMIT,     *)
(* execution on a pooled connection                                        *)
(***************************************************************************)
Digits == {"0","1","2","3","4","5","6","7","8","9"}

\* String.prototype.toUpperCase, one character
toUpperChar(c) ==
    IF \E i \in 1..Len(Lower) : Lower[i] = c
    THEN Upper[CHOOSE i \in 1..Len(Lower) : Lower[i] = c]
    ELSE c

toUpperCase(s) == [i \in 1..Len(s) |-> toUpperChar(s[i])]

\* the characters the regular expression class \w matches
IsWordChar(c) ==
    \/ \E i \in 1..Len(Upper) : Upper[i] = c \/ Lower[i] = c
    \/ c \in Digits
    \/ c = "_"

\* the assertion \b before position i of s (i in 1..Len(s)+1)
wordBoundary(s, i) ==
    LET before == i > 1 /\ IsWordChar(s[i - 1])
        after  == i <= Len(s) /\ IsWordChar(s[i])
    IN  before # after

DangerousKeywords ==
    { <<"I","N","S","E","R","T">>, <<"U","P","D","A","T","E">>,
      <<"D","E","L","E","T","E">>, <<"D","R","O","P">>, <<"C","R","E","A","T","E">>,
      <<"A","L","T","E","R">>, <<"T","R","U","N","C","A","T","E">>,
      <<"R","E","I","N","D","E","X">> }

safeKeywords ==
    { <<"S","E","L","E","C","T">>, <<"W","I","T","H">>, <<"S","H","O","W">>,
      <<"D","E","S","C","R","I","B","E">>, <<"E","X","P","L","A","I","N">>,
      <<"V","A","L","U","E","S">> }

\* hasDangerousKeyword matching substrings, as String.prototype.includes does
hasDangerousKeyword_includes(queryUpper) ==
    \E kw \in DangerousKeywords : includes(queryUpper, kw)

\* /\b(INSERT|UPDATE|DELETE|DROP|CREATE|ALTER|TRUNCATE|REINDEX)\b/.test(queryUpper)
hasDangerousKeyword(queryUpper) ==
    \E kw \in DangerousKeywords : \E i \in 1..Len(queryUpper) :
        /\ wordBoundary(queryUpper, i)
        /\ OccursAt(queryUpper, kw, i)
        /\ wordBoundary(queryUpper, i + Len(kw))

\* queryTrimmed.split(/\s+/)[0]: the characters before the first white space
RECURSIVE splitFirst(_)
splitFirst(s) ==
    IF s = <<>> \/ IsWhiteSpace(Head(s)) THEN <<>> ELSE <<Head(s)>> \o splitFirst(Tail(s))

queryStart(queryTrimmed) == toUpperCase(splitFirst(queryTrimmed))

\* the read-only validation of the query tool: which return it takes
readonlyCheck(sql) ==
    LET queryTrimmed == trim(sql)
        queryUpper == toUpperCase(queryTrimmed)
    IN  IF hasDangerousKeyword(queryUpper) THEN "blockedKeyword"
        ELSE IF queryStart(queryTrimmed) \notin safeKeywords THEN "blockedStart"
        ELSE "pass"

SLimit == <<"L","I","M","I","T">>
SSelect == <<"S","E","L","E","C","T">>
SWith == <<"W","I","T","H">>

\* the statement handed to client.query: the automatic LIMIT
finalSql(sql, limit) ==
    LET trimmed == trim(sql)
        queryUpper == toUpperCase(trimmed)
    IN  IF ~includes(queryUpper, SLimit)
           /\ (startsWith(queryUpper, SSelect) \/ startsWith(queryUpper, SWith))
        THEN IF startsWith(queryUpper, SSelect) /\ ~includes(queryUpper, <<"(">>)
             THEN trimmed \o <<" ">> \o SLimit \o <<" ">> \o limit
             ELSE <<"SELECT * FROM (">> \o sql \o <<") AS limited_query LIMIT ">> \o limit
        ELSE trimmed

\* values of the limit parameter, in decimal (100 is the default)
Limits == { <<"1">>, <<"1","0","0">> }

\* the pieces SQL statements are assembled from
SqlPieces ==
    { <<"S","E","L","E","C","T">>, <<"S","E","L","E","C","T"," ">>, <<"w","i","t","h"," ">>,
      <<"E","X","P","L","A","I","N"," ">>,
      <<"c","r","e","a","t","e","d","_","a","t">>, <<"u","p","d","a","t","e","d","_","b","y">>,
      <<"d","e","l","e","t","e","d","_","a","t">>,
      <<"D","E","L","E","T","E">>, <<"d","r","o","p">>, SLimit,
      <<" ">>, <<";">>, <<"(">>, <<"_">> }

SqlPieceSeqs(n) == UNION { [1..k -> SqlPieces] : k \in 0..n }

SqlStatements == { Concat(ps) : ps \in SqlPieceSeqs(MaxSqlPieces) }

\* the query tool is called: execute up to its first await
QueryExecute ==
    /\ tool.pc = "idle"
    /\ \E sql \in SqlStatements, validateOnly \in BOOLEAN, readonly \in BOOLEAN,
          limit \in Limits :
        LET call == [IdleTool EXCEPT !.sql = sql, !.validateOnly = validateOnly,
                                     !.readonly = readonly, !.limit = limit]
        IN  IF readonly /\ readonlyCheck(sql) # "pass"
            THEN tool' = [call EXCEPT !.pc = "done", !.outcome = readonlyCheck(sql)]
            ELSE tool' = [call EXCEPT !.pc = "connect"]
    /\ UNCHANGED clients
    /\ UNCHANGED <<routerVars, searchVars, embedVars, jobVars>>

\* pool.connect() resolves: the statement is handed to client.query
PoolConnect ==
    /\ tool.pc = "connect"
    /\ clients' = clients + 1
    /\ tool' = [tool EXCEPT !.pc = "query", !.connected = TRUE,
                            !.sent = finalSql(tool.sql, tool.limit)]
    /\ UNCHANGED <<routerVars, searchVars, embedVars, jobVars>>

\* pool.connect() rejects: the outer catch returns the error text
PoolConnectFail ==
    /\ tool.pc = "connect"
    /\ tool' = [tool EXCEPT !.pc = "done", !.outcome = "error"]
    /\ UNCHANGED clients
    /\ UNCHANGED <<routerVars, searchVars, embedVars, jobVars>>

\* client.query settles (rows or an error); finally releases the client
ClientQueryReturn ==
    /\ tool.pc = "query"
    /\ \E outcome \in {"executed", "error"} :
        tool' = [tool EXCEPT !.pc = "done", !.outcome = outcome]
    /\ clients' = clients - 1
    /\ UNCHANGED <<routerVars, searchVars, embedVars, jobVars>>

\* the caller has the tool's text; the tool is ready for the next call
QueryReturn ==
    /\ tool.pc = "done"
    /\ tool' = IdleTool
    /\ UNCHANGED clients
    /\ UNCHANGED <<routerVars, searchVars, embedVars, jobVars>>

QueryNext ==
    \/ QueryExecute
    \/ PoolConnect
    \/ PoolConnectFail
    \/ ClientQueryReturn
    \/ QueryReturn

SpecQuery == Init /\ [][QueryNext]_vars

(***************************************************************************)
(* The CoreTools handlers that work on a pooled client (the query tool is  *)
(* modelled above): diagnose, explore, insert, manage_vectors,             *)
(* vectorize_row                                                           *)
(***************************************************************************)
\* the calls of the handlers: tool name and the argument values that select a path
HandlerCalls ==
    ({"diagnose"} \X {"connection", "performance", "all"}) \cup
    ({"explore"} \X {"databases", "tables", "schema", "schemaNoTarget", "structure"}) \cup
    ({"insert"} \X {"plain", "generateEmbedding"}) \cup
    ({"manage_vectors"} \X {"create", "index", "stats", "optimize", "list"}) \cup
    ({"vectorize_row"} \X {"found", "notFound", "shortText"})

\* the number of awaited operations (queries, optimizer calls, generateEmbedding)
\* whose rejection reaches the handler's catch, before the handler returns
handlerAwaits(name, variant) ==
    CASE name = "diagnose" -> IF variant = "all" THEN 2 ELSE 1
      [] name = "explore" ->
            IF variant = "schemaNoTarget" THEN 0
            ELSE IF variant = "structure" THEN 2 ELSE 1
      [] name = "insert" -> IF variant = "generateEmbedding" THEN 2 ELSE 1
      [] name = "manage_vectors" -> 1
      [] OTHER -> IF variant = "found" THEN 3 ELSE 1

\* the handler releases its client in a finally block (vectorize_row); the others
\* call client.release() before each return of the success paths
releasesInFinally(name) == name = "vectorize_row"

\* the return of a path that resolved all its awaits releases the client
\* (explore type 'schema' without target returns before any release)
releasesOnReturn(name, variant) ==
    releasesInFinally(name) \/ ~(name = "explore" /\ variant = "schemaNoTarget")

\* a handler is called: pool.connect is awaited
HandlerCall ==
    /\ handler.pc = "idle"
    /\ clients < MaxClients
    /\ \E c \in HandlerCalls :
        handler' = [IdleHandler EXCEPT !.pc = "connect", !.name = c[1], !.variant = c[2],
                                      !.awaits = handlerAwaits(c[1], c[2])]
    /\ UNCHANGED clients
    /\ UNCHANGED tool
    /\ UNCHANGED <<vsearch, analysis, backfill>>
    /\ UNCHANGED <<routerVars, searchVars, embedVars>>

\* pool.connect resolves: the handler runs up to its next await, or returns
HandlerConnect ==
    /\ handler.pc = "connect"
    /\ IF handler.awaits = 0
       THEN /\ handler' = [handler EXCEPT
                    !.pc = "done", !.client = TRUE, !.outcome = "returned",
                    !.releases = IF releasesOnReturn(handler.name, handler.variant)
                                 THEN 1 ELSE 0]
            /\ clients' = IF releasesOnReturn(handler.name, handler.variant)
                          THEN clients ELSE clients + 1
       ELSE /\ handler' = [handler EXCEPT !.pc = "await", !.client = TRUE]
            /\ clients' = clients + 1
    /\ UNCHANGED tool
    /\ UNCHANGED <<vsearch, analysis, backfill>>
    /\ UNCHANGED <<routerVars, searchVars, embedVars>>

\* pool.connect rejects: the catch returns the error text
HandlerConnectFail ==
    /\ handler.pc = "connect"
    /\ handler' = [handler EXCEPT !.pc = "done", !.outcome = "error"]
    /\ UNCHANGED clients
    /\ UNCHANGED tool
    /\ UNCHANGED <<vsearch, analysis, backfill>>
    /\ UNCHANGED <<routerVars, searchVars, embedVars>>

\* an awaited operation resolves: the handler goes on to the next one, or releases
\* the client and returns
HandlerAwaitReturn ==
    /\ handler.pc = "await"
    /\ IF handler.awaits > 1
       THEN /\ handler' = [handler EXCEPT !.awaits = @ - 1]
            /\ UNCHANGED clients
       ELSE /\ handler' = [handler EXCEPT
                    !.pc = "done", !.awaits = 0, !.outcome = "returned",
                    !.releases = IF releasesOnReturn(handler.name, handler.variant)
                                 THEN @ + 1 ELSE @]
            /\ clients' = IF releasesOnReturn(handler.name, handler.variant)
                          THEN clients - 1 ELSE clients
    /\ UNCHANGED tool
    /\ UNCHANGED <<vsearch, analysis, backfill>>
    /\ UNCHANGED <<routerVars, searchVars, embedVars>>

\* an awaited operation rejects (failed SQL, failed embedding generation): the
\* catch returns the error text; only a finally block releases the client
HandlerAwaitFail ==
    /\ handler.pc = "await"
    /\ handler' = [handler EXCEPT
            !.pc = "done", !.outcome = "error",
            !.releases = IF releasesInFinally(handler.name) THEN @ + 1 ELSE @]
    /\ clients' = IF releasesInFinally(handler.name) THEN clients - 1 ELSE clients
    /\ UNCHANGED tool
    /\ UNCHANGED <<vsearch, analysis, backfill>>
    /\ UNCHANGED <<routerVars, searchVars, embedVars>>

\* the caller has the handler's text
HandlerDone ==
    /\ handler.pc = "done"
    /\ handler' = IdleHandler
    /\ UNCHANGED clients
    /\ UNCHANGED tool
    /\ UNCHANGED <<vsearch, analysis, backfill>>
    /\ UNCHANGED <<routerVars, searchVars, embedVars>>

ToolsNext ==
    \/ HandlerCall
    \/ HandlerConnect
    \/ HandlerConnectFail
    \/ HandlerAwaitReturn
    \/ HandlerAwaitFail
    \/ HandlerDone

SpecTools == Init /\ [][ToolsNext]_vars

(***************************************************************************)
(* The pgvector_search tool: nearest neighbours under a distance metric    *)
(* (distances and similarities in tenths)                                  *)
(***************************************************************************)
\* z.enum(['<=>', '<->', '<#>']): cosine, L2, negative inner product
DistanceMetrics == {"<=>", "<->", "<#>"}

\* distances the store may compute under each metric: cosine distance lies in
\* [0, 2], L2 distance is not negative, the negative inner product has any sign
Distances(metric) ==
    CASE metric = "<=>" -> {0, 3, 12}
      [] metric = "<->" -> {0, 25}
      [] OTHER -> {-30, 4}

\* the similarity column of the statement: `1 - (column metric vector) as similarity`
similarityColumn(metric) == [minuend |-> 10, operator |-> metric]

\* the value of a similarity column for a row at distance d
similarityValue(column, d) == column.minuend - d

\* ORDER BY column metric vector LIMIT topK, over a table of two rows
VectorSearchRows(metric, topK) ==
    UNION { { Limit([i \in 1..Len(o) |->
                        [id |-> o[i], distance |-> t[o[i]],
                         similarity |-> similarityValue(similarityColumn(metric), t[o[i]])]],
                    topK) :
              o \in { o \in [1..2 -> 1..2] :
                        o[1] # o[2] /\ t[o[1]] <= t[o[2]] } } :
            t \in [1..2 -> Distances(metric)] }

\* pgvector_search is called: pool.connect is awaited
VectorSearchCall ==
    /\ vsearch.pc = "idle"
    /\ \E metric \in DistanceMetrics, useRandomVector \in BOOLEAN, hasQueryVector \in BOOLEAN,
          topK \in {1, 5} :
        vsearch' = [IdleSearch EXCEPT !.pc = "connect", !.distanceMetric = metric,
                                     !.useRandomVector = useRandomVector,
                                     !.queryVector = hasQueryVector, !.topK = topK]
    /\ UNCHANGED <<handler, analysis, backfill>>
    /\ UNCHANGED <<routerVars, searchVars, embedVars, toolVars>>

\* the client is acquired: without vector the handler returns at once (the client
\* is not released), otherwise the statement is built and sent
VectorSearchConnect ==
    /\ vsearch.pc = "connect"
    /\ IF ~vsearch.useRandomVector /\ ~vsearch.queryVector
       THEN vsearch' = [vsearch EXCEPT !.pc = "done", !.client = "held",
                                      !.outcome = "noVector"]
       ELSE vsearch' = [vsearch EXCEPT !.pc = "query", !.client = "held",
                                      !.similarity = similarityColumn(vsearch.distanceMetric)]
    /\ UNCHANGED <<handler, analysis, backfill>>
    /\ UNCHANGED <<routerVars, searchVars, embedVars, toolVars>>

\* pool.connect or client.query rejects: the catch formats the error (a client
\* that was acquired is not released)
VectorSearchFail ==
    /\ vsearch.pc \in {"connect", "query"}
    /\ vsearch' = [vsearch EXCEPT !.pc = "done", !.outcome = "error"]
    /\ UNCHANGED <<handler, analysis, backfill>>
    /\ UNCHANGED <<routerVars, searchVars, embedVars, toolVars>>

\* the statement returns its rows: the client is released, the rows are listed
VectorSearchReturn ==
    /\ vsearch.pc = "query"
    /\ \E rows \in VectorSearchRows(vsearch.distanceMetric, vsearch.topK) :
        vsearch' = [vsearch EXCEPT !.pc = "done", !.client = "released", !.rows = rows,
                                  !.outcome = "listed"]
    /\ UNCHANGED <<handler, analysis, backfill>>
    /\ UNCHANGED <<routerVars, searchVars, embedVars, toolVars>>

\* the caller has the tool's text
VectorSearchDone ==
    /\ vsearch.pc = "done"
    /\ vsearch' = IdleSearch
    /\ UNCHANGED <<handler, analysis, backfill>>
    /\ UNCHANGED <<routerVars, searchVars, embedVars, toolVars>>

VectorSearchNext ==
    \/ VectorSearchCall
    \/ VectorSearchConnect
    \/ VectorSearchFail
    \/ VectorSearchReturn
    \/ VectorSearchDone

SpecVectorSearch == Init /\ [][VectorSearchNext]_vars

(***************************************************************************)
(* The backfill script: count, probe, then batches of articles without     *)
(* embedding, newest first, the articles of a batch processed in parallel  *)
(*   backfill.embedding[a] : article a has a non-null embedding            *)
(*   backfill.state[a]     : progress of article a in the batch in flight  *)
(*   backfill.failed       : articles that have failed in some attempt     *)
(*   backfill.attempted    : articles that have been selected in a batch   *)
(***************************************************************************)
\* the recent articles, numbered by decreasing timestamp_unix_ms
Articles == 1..NumArticles

\* SELECT COUNT(*) ... WHERE embedding IS NULL
countTargets(embedding) == Cardinality({a \in Articles : ~embedding[a]})

RECURSIVE ascending(_)
ascending(ids) ==
    IF ids = {} THEN <<>>
    ELSE LET first == CHOOSE a \in ids : \A b \in ids : a <= b
         IN  <<first>> \o ascending(ids \ {first})

\* selectQuery: WHERE embedding IS NULL ORDER BY timestamp_unix_ms DESC LIMIT BATCH_SIZE
selectBatch(embedding) ==
    Limit(ascending({a \in Articles : ~embedding[a]}), BATCH_SIZE)

\* the articles of the batch in flight
batchRows == { backfill.rows[i] : i \in 1..Len(backfill.rows) }

\* the script is started: the count query is issued on the table as it is
BackfillStart ==
    /\ backfill.pc = "idle"
    /\ \E embedding \in [Articles -> BOOLEAN] :
        backfill' = [NoBackfill EXCEPT !.pc = "count", !.embedding = embedding]
    /\ UNCHANGED <<handler, vsearch, analysis>>
    /\ UNCHANGED <<routerVars, searchVars, embedVars, toolVars>>

\* the count query returns: nothing to do, or the probe embedding is requested
CountReturn ==
    /\ backfill.pc = "count"
    /\ backfill' = [backfill EXCEPT
            !.totalToProcess = countTargets(backfill.embedding),
            !.pc = IF countTargets(backfill.embedding) = 0 THEN "done" ELSE "probe"]
    /\ UNCHANGED <<handler, vsearch, analysis>>
    /\ UNCHANGED <<routerVars, searchVars, embedVars, toolVars>>

\* the probe embedding and the schema query return (a failed ALTER is only
\* logged): the first batch is selected
ProbeReturn ==
    /\ backfill.pc = "probe"
    /\ backfill' = [backfill EXCEPT !.pc = "select"]
    /\ UNCHANGED <<handler, vsearch, analysis>>
    /\ UNCHANGED <<routerVars, searchVars, embedVars, toolVars>>

\* the count query, the probe, the schema query or a select query rejects: the
\* outer catch logs the fatal error and the script ends
BackfillFatal ==
    /\ backfill.pc \in {"count", "probe", "select"}
    /\ backfill' = [backfill EXCEPT !.pc = "fatal"]
    /\ UNCHANGED <<handler, vsearch, analysis>>
    /\ UNCHANGED <<routerVars, searchVars, embedVars, toolVars>>

\* the select query returns its rows: the loop breaks on no row, otherwise
\* generateEmbedding is called for every row of the batch
SelectReturn ==
    /\ backfill.pc = "select"
    /\ LET rows == selectBatch(backfill.embedding)
       IN  IF rows = <<>>
           THEN backfill' = [backfill EXCEPT !.pc = "done"]
           ELSE backfill' = [backfill EXCEPT
                    !.pc = "batch",
                    !.rows = rows,
                    !.state = [a \in {rows[i] : i \in 1..Len(rows)} |-> "pending"],
                    !.attempted = @ \cup {rows[i] : i \in 1..Len(rows)}]
    /\ UNCHANGED <<handler, vsearch, analysis>>
    /\ UNCHANGED <<routerVars, searchVars, embedVars, toolVars>>

\* generateEmbedding resolves for one article: its UPDATE is issued
RowEmbedded ==
    /\ backfill.pc = "batch"
    /\ \E a \in batchRows :
        /\ backfill.state[a] = "pending"
        /\ backfill' = [backfill EXCEPT !.state[a] = "embedded"]
    /\ UNCHANGED <<handler, vsearch, analysis>>
    /\ UNCHANGED <<routerVars, searchVars, embedVars, toolVars>>

\* the UPDATE of one article returns: the article has its embedding
RowUpdated ==
    /\ backfill.pc = "batch"
    /\ \E a \in batchRows :
        /\ backfill.state[a] = "embedded"
        /\ backfill' = [backfill EXCEPT !.state[a] = "updated", !.embedding[a] = TRUE]
    /\ UNCHANGED <<handler, vsearch, analysis>>
    /\ UNCHANGED <<routerVars, searchVars, embedVars, toolVars>>

\* RowFail aborting the run
RowFail_abort ==
    /\ backfill.pc = "batch"
    /\ \E a \in batchRows :
        /\ backfill.state[a] \in {"pending", "embedded"}
        /\ backfill' = [backfill EXCEPT !.state[a] = "failed", !.errors = @ + 1,
                                        !.failed = @ \cup {a}, !.pc = "fatal"]
    /\ UNCHANGED <<handler, vsearch, analysis>>
    /\ UNCHANGED <<routerVars, searchVars, embedVars, toolVars>>

\* generateEmbedding or the UPDATE of one article rejects: the catch of the row
\* counts and logs the error
RowFail ==
    /\ backfill.pc = "batch"
    /\ \E a \in batchRows :
        /\ backfill.state[a] \in {"pending", "embedded"}
        /\ backfill' = [backfill EXCEPT !.state[a] = "failed", !.errors = @ + 1,
                                        !.failed = @ \cup {a}]
    /\ UNCHANGED <<handler, vsearch, analysis>>
    /\ UNCHANGED <<routerVars, searchVars, embedVars, toolVars>>

\* Promise.all resolves: every row has settled; processed is advanced and the loop
\* condition is tested
BatchEnd ==
    /\ backfill.pc = "batch"
    /\ \A a \in batchRows : backfill.state[a] \in {"updated", "failed"}
    /\ backfill' = [backfill EXCEPT
            !.processed = @ + Len(backfill.rows),
            !.rows = <<>>,
            !.state = <<>>,
            !.pc = IF backfill.processed + Len(backfill.rows) < backfill.totalToProcess
                   THEN "select" ELSE "done"]
    /\ UNCHANGED <<handler, vsearch, analysis>>
    /\ UNCHANGED <<routerVars, searchVars, embedVars, toolVars>>

BackfillNext ==
    \/ BackfillStart
    \/ CountReturn
    \/ ProbeReturn
    \/ BackfillFatal
    \/ SelectReturn
    \/ RowEmbedded
    \/ RowUpdated
    \/ RowFail
    \/ BatchEnd

SpecBackfill == Init /\ [][BackfillNext]_vars

(***************************************************************************)
(* The mode router as a state machine: a caller picks a query and a mode,  *)
(* detectSearchMode answers                                                *)
(***************************************************************************)
Ask ==
    /\ routed = "none"
    /\ userQuery = <<>>
    /\ \E q \in (RouterQueries \cup ScenarioQueries) \ { <<>> }, m \in Modes :
        /\ userQuery' = q
        /\ requestedMode' = m
    /\ UNCHANGED routed
    /\ UNCHANGED <<searchVars, embedVars, toolVars, jobVars>>

Route ==
    /\ routed = "none"
    /\ routed' = detectSearchMode(userQuery, requestedMode)
    /\ UNCHANGED <<userQuery, requestedMode>>
    /\ UNCHANGED <<searchVars, embedVars, toolVars, jobVars>>

RouterNext == Ask \/ Route

\* the rationale strings of analyzeQuery
RShort == "Requête courte - full-text suffira"
RComplex == "Question complexe - vecteur recommandé"
RTest == "Requête de test détectée"
RLong == "Requête longue - vecteur plus précis"

\* IntelligentSearchService.analyzeQuery: the mode of the router, and the
\* rationales, suggestions and confidence (in tenths) computed on the query as given
analyzeQuery(query) ==
    LET mode == detectSearchMode(query, "auto")
        words == splitSpaceLength(query)
        length == Len(query)
        short == words <= 2
        question == includes(query, SComment) \/ includes(query, SPourquoi)
        test == startsWith(query, STest) \/ startsWith(query, SDebug)
        long == length > 100
    IN  [mode |-> mode,
         reasoning |-> (IF short THEN {RShort} ELSE {}) \cup
                       (IF question THEN {RComplex} ELSE {}) \cup
                       (IF test THEN {RTest} ELSE {}) \cup
                       (IF long THEN {RLong} ELSE {}),
         suggestions |->
            (IF short THEN {"Utilisez le mode \"text\" pour plus de rapidité"} ELSE {}) \cup
            (IF question THEN {"Mode \"hybrid\" offrira les meilleurs résultats"} ELSE {}) \cup
            (IF test
             THEN {"Utilisez pgvector_search avec useRandomVector: true pour les tests"}
             ELSE {}) \cup
            (IF long THEN {"Mode \"hybrid\" pour combiner vitesse et précision"} ELSE {}),
         confidence |->
            IF mode = "vector" /\ length > 20 /\ words > 2 THEN 7
            ELSE IF mode = "hybrid" /\ (includes(query, SComment) \/ length > 50) THEN 9
            ELSE IF mode = "text" /\ words <= 2 THEN 8
            ELSE 5]

\* a caller invokes analyzeQuery(userQuery)
Analyze ==
    /\ analysis = NoAnalysis
    /\ analysis' = analyzeQuery(userQuery)
    /\ UNCHANGED <<handler, vsearch, backfill>>
    /\ UNCHANGED <<routerVars, searchVars, embedVars, toolVars>>

AnalyzeNext == Ask \/ Analyze

SpecAnalyze == Init /\ [][AnalyzeNext]_vars

SpecRouter == Init /\ [][RouterNext]_vars

(***************************************************************************)
(* Properties                                                              *)
(***************************************************************************)
\* the request in flight is a hybrid search (performHybridSearch) that has resolved
HybridDone == pc = "done" /\ req.entry = "hybrid" /\ req.hybridMode

\* ---- C1 ----------------------------------------------------------------
\* a step in which a generateEmbedding call for non-empty text with no usable
\* cache entry meets a failure: no API key, or the HTTP call fails / carries no data
C1_FailingStep ==
    \/ /\ pc = "idle"
       /\ pc' # "idle"
       /\ req'.entry = "embed"
       /\ trim(req'.query) # <<>>
       /\ ~(req'.useCache /\ cacheHas(cache, cacheKey(req'.model, trim(req'.query))))
       /\ ~apiKey
    \/ /\ pc = "api"
       /\ req.entry = "embed"
       /\ pc' # "api"
       /\ response' \in ApiFailures

\* C1: for non-empty text with no usable cache entry, if no API key is configured,
\* the HTTP call fails, or the response carries no embedding data, generateEmbedding
\* rejects with an error, returns no vector at all, and leaves the cache unchanged
\* (the cache is also untouched while the call awaits the endpoint).
C1_FailurePropagates ==
    [][ /\ C1_FailingStep =>
            /\ pc' = "failed"
            /\ error' # <<>>
            /\ results' = <<>>
            /\ cache' = cache
        /\ (pc = "idle" /\ pc' = "api") => cache' = cache ]_vars

\* a generateEmbedding call was rejected for a response without embedding data
\* while the cache held an entry
C1_Witness ==
    /\ pc = "failed"
    /\ req.entry = "embed"
    /\ response = "nodata"
    /\ error = apiErrorMessage("nodata")
    /\ cache # <<>>

C3_ScoresNonIncreasing ==
    HybridDone =>
        \A i, j \in 1..Len(results) :
            i < j => results[i].final_score >= results[j].final_score

\* a result whose vector-distance order differs from its final-score order
C3_Witness ==
    /\ HybridDone
    /\ Len(results) >= 2
    /\ results[1].similarity < results[2].similarity
    /\ results[1].final_score > results[2].final_score

\* ---- C4 ----------------------------------------------------------------
\* C4: in any non-empty hybrid result of n records, the record at 1-based position
\* i of the returned list has rank = i (rank assigned after sorting by final score).
C4_RankIsPosition ==
    (HybridDone /\ results # <<>>) =>
        \A i \in 1..Len(results) : results[i].rank = i

\* ---- C5 ----------------------------------------------------------------
\* the text pre-filter of the hybrid search in flight has returned zero rows
PrefilterEmpty ==
    /\ req.entry = "hybrid"
    /\ req.hybridMode
    /\ table # NoTable
    /\ textRows = <<>>

\* C5: if the full-text pre-filter of a hybrid search returns zero rows, hybrid
\* search returns an empty result list as a success and, for that request, never
\* invokes the embedding generator (cache lookup or remote call) nor the vector query.
C5_PrefilterShortCircuit ==
    PrefilterEmpty =>
        /\ pc = "done"
        /\ results = <<>>
        /\ error = <<>>
        /\ calls = [embed |-> 0, api |-> 0, text |-> 1, vector |-> 0]
        /\ queryVector = <<>>

\* the pre-filter returned zero rows although a row of the table is a close vector match
C5_Witness ==
    /\ PrefilterEmpty
    /\ pc = "done"
    /\ \E id \in DOMAIN table : table[id].similarity = 9

\* ---- C6 ----------------------------------------------------------------
\* C6: every record in a hybrid search result has a primary key that was returned
\* by that request's text pre-filter, and the result holds at most
\* min(topK, number of pre-filter rows) records; a row absent from the pre-filter
\* result is never returned, however close its vector is.
C6_OnlyCandidates ==
    HybridDone =>
        /\ \A i \in 1..Len(results) : \E j \in 1..Len(textRows) : textRows[j].id = results[i].id
        /\ Len(results) <= Min(req.topK, Len(textRows))
        /\ \A id \in DOMAIN table :
               (\A j \in 1..Len(textRows) : textRows[j].id # id)
                   => \A i \in 1..Len(results) : results[i].id # id

\* a non-matching row is the closest vector of the table, topK leaves room for it,
\* and the result holds the one pre-filter row only
C6_Witness ==
    /\ HybridDone
    /\ results # <<>>
    /\ \E id \in DOMAIN table : ~table[id].match /\ table[id].similarity = 9
    /\ \A i \in 1..Len(results) : results[i].similarity < 9
    /\ Len(results) = 1
    /\ req.topK = 10

\* ---- C7 ----------------------------------------------------------------
\* the query as detectSearchMode normalises it
Normalized(q) == trim(toLowerCase(q))

\* C7: for every query string and every requested mode in {text, vector, hybrid},
\* detectSearchMode returns exactly the requested mode, whatever the query contains.
C7_OverrideWins ==
    (routed # "none" /\ requestedMode \in {"text", "vector", "hybrid"}) =>
        routed = requestedMode

\* an explicit vector request for a long query that begins with a test marker
C7_Witness ==
    /\ routed = "vector"
    /\ requestedMode = "vector"
    /\ startsWith(Normalized(userQuery), STest)
    /\ Len(userQuery) > 50

\* ---- C8 ----------------------------------------------------------------
\* the query begins (case-insensitively) with "test:", "debug:" or "random:", or
\* contains "performance" or "benchmark"
C8_Marker(q) ==
    \/ startsWith(toLowerCase(q), STest)
    \/ startsWith(toLowerCase(q), SDebug)
    \/ startsWith(toLowerCase(q), SRandom)
    \/ includes(toLowerCase(q), SPerformance)
    \/ includes(toLowerCase(q), SBenchmark)

TokenCount(q) ==
    Cardinality({ i \in 1..Len(q) :
                    /\ ~IsWhiteSpace(q[i])
                    /\ (i = 1 \/ IsWhiteSpace(q[i - 1])) })

\* C9: with requested = auto and no test/debug marker matched, a query is routed
\* to text exactly when its whitespace-split token count is at most 2.
C9_ShortIffText ==
    (routed # "none" /\ requestedMode = "auto" /\ ~IsTestQuery(Normalized(userQuery))) =>
        (routed = "text" <=> TokenCount(userQuery) <= 2)

\* ---- C10 ---------------------------------------------------------------
\* C10: with requested = auto, for a query with more than 2 tokens and no
\* test/debug marker, the router returns hybrid if the query contains an
\* interrogative marker of the router's phrase set or is longer than 50
\* characters, and vector otherwise.
C10_HybridOrVector ==
    ( /\ routed # "none"
      /\ requestedMode = "auto"
      /\ ~IsTestQuery(Normalized(userQuery))
      /\ TokenCount(userQuery) > 2 ) =>
        routed = IF \/ includes(Normalized(userQuery), SComment)
                    \/ includes(Normalized(userQuery), SPourquoi)
                    \/ includes(Normalized(userQuery), SQuelleEst)
                    \/ Len(Normalized(userQuery)) > 50
                 THEN "hybrid" ELSE "vector"

CallerStarts(p) == callers[p].pc = "idle" /\ callers'[p].pc # "idle"

\* C13 as stated: if a call with useCache = true has succeeded, a second call with
\* the same model and the same text (up to surrounding whitespace), made with no
\* intervening eviction or clearCache, returns the identical vector and issues no
\* remote call.
C13_SecondCallIdentical ==
    [][ \A p \in Callers :
          ( /\ CallerStarts(p)
            /\ callers'[p].useCache
            /\ returned[callerKey(callers'[p])] # {} ) =>
              /\ callers'[p].pc = "done"
              /\ callers'[p].api = 0
              /\ \A v \in returned[callerKey(callers'[p])] : callers'[p].result = v ]_vars

\* C13 amended: a call with useCache = true that succeeds leaves its vector in the
\* cache under its key, and a later call with the same model and the same text (up
\* to surrounding whitespace), made with no intervening eviction, clearCache or
\* cache write for that key by another call, returns the identical vector, issues
\* no remote call and leaves the cache unchanged.
C13_SecondCallCached ==
    [][ \A p \in Callers :
          /\ ( /\ CallerStarts(p)
               /\ callers'[p].useCache
               /\ cacheHas(cache, callerKey(callers'[p])) ) =>
                 /\ callers'[p].pc = "done"
                 /\ callers'[p].api = 0
                 /\ callers'[p].result = cacheGet(cache, callerKey(callers'[p]))
                 /\ cache' = cache
          /\ ( /\ CallerStarts(p)
               /\ callers'[p].useCache
               /\ Cardinality(returned[callerKey(callers'[p])]) = 1 ) =>
                 callers'[p].result \in returned[callerKey(callers'[p])]
          /\ ( /\ callers[p].pc = "api"
               /\ callers'[p].pc = "done"
               /\ callers[p].useCache ) =>
                 /\ cacheHas(cache', callerKey(callers[p]))
                 /\ cacheGet(cache', callerKey(callers[p])) = callers'[p].result ]_vars

\* a call for " AI" was answered from the entry an earlier call for the same
\* trimmed text had written, without a remote call
C13_Witness ==
    \E p \in Callers :
        /\ callers[p].pc = "done"
        /\ callers[p].useCache
        /\ callers[p].query = <<" ","A","I">>
        /\ callers[p].api = 0
        /\ returned[callerKey(callers[p])] = {callers[p].result}
        /\ callers[p].result \in Vectors

\* ---- C14 ---------------------------------------------------------------
\* C14: for any text that is empty after trimming, generateEmbedding returns a
\* vector of exactly `dimensions` entries, all zero, issues no remote call and
\* leaves the cache unchanged, whether or not an API key is configured.
C14_EmptyTextZeroVector ==
    [][ ( /\ calls'.embed = calls.embed + 1
          /\ trim(req'.query) = <<>> ) =>
            LET vec == IF req'.entry = "embed" THEN results' ELSE queryVector'
            IN  /\ pc' = (IF req'.entry = "embed" THEN "done" ELSE "vector")
                /\ Len(vec) = req'.dimensions
                /\ \A i \in 1..Len(vec) : vec[i] = 0
                /\ calls'.api = calls.api
                /\ cache' = cache
                /\ error' = <<>> ]_vars

\* without API key, generateEmbedding(" ", {dimensions: 2}) has returned [0, 0]
C14_Witness ==
    /\ ~apiKey
    /\ pc = "done"
    /\ req.entry = "embed"
    /\ req.query = <<" ">>
    /\ req.dimensions = 2
    /\ results = <<0, 0>>
    /\ calls = [NoCalls EXCEPT !.embed = 1]

\* ---- C16 ---------------------------------------------------------------
\* prefix of the catch blocks of both search services
SearchErrorPrefix == <<"Échec de recherche: ">>

\* IntelligentSearchService.search has rejected
SearchFailed == pc = "failed" /\ req.entry = "intelligent"

C17_FailureEndsSearch ==
    [][ /\ (thrown' # <<>>) =>
              /\ pc' = "failed"
              /\ error' # <<>>
              /\ results' = <<>>
        /\ (thrown # <<>>) =>
              /\ pc' = "idle"
              /\ calls' = NoCalls
              /\ cache' = cache ]_vars

\* the vector query of a hybrid search has failed after the pre-filter and the
\* embedding had succeeded
C17_Witness ==
    /\ SearchFailed
    /\ req.detectedMode = "hybrid"
    /\ thrown = storeErrorMessage
    /\ calls = [embed |-> 1, api |-> 1, text |-> 1, vector |-> 1]
    /\ queryVector \in Vectors
    /\ results = <<>>

\* ---- C18 ---------------------------------------------------------------
\* C18: whenever the resolved mode of a search is text (e.g. query "AI" with mode
\* auto), the search service issues exactly one full-text store query, no embedding
\* call (cache lookup or remote) and no vector query, and the embedding cache is
\* unchanged.
C18_TextModeOnlyFullText ==
    [][ ( /\ req'.entry = "intelligent"
          /\ req'.detectedMode = "text" ) =>
            /\ cache' = cache
            /\ calls'.embed = 0
            /\ calls'.api = 0
            /\ calls'.vector = 0
            /\ pc' \in {"text", "done", "failed"}
            /\ calls'.text = (IF pc' = "text" THEN 0 ELSE 1)
            /\ queryVector' = <<>> ]_vars

\* "AI" with mode auto was answered by the full-text query while the cache held
\* an entry
C18_Witness ==
    /\ pc = "done"
    /\ req.entry = "intelligent"
    /\ req.query = <<"A","I">>
    /\ req.mode = "auto"
    /\ req.detectedMode = "text"
    /\ calls = [NoCalls EXCEPT !.text = 1]
    /\ results # <<>>
    /\ cache # <<>>

\* ---- C19 ---------------------------------------------------------------
\* C19: when the query tool is called with validateOnly = true, the SQL statement
\* is only validated and is never sent to the database, whatever the value of
\* readonly.
C19_ValidateOnlyNeverSends ==
    tool.validateOnly => (tool.sent = <<>> /\ ~tool.connected)

\* ---- C20 ---------------------------------------------------------------
\* the words of s in upper case: its maximal runs of letters, digits and "_"
WordsOf(s) ==
    LET u == toUpperCase(s)
    IN  { SubSeq(u, i, j) : <<i, j>> \in
            { ij \in (1..Len(u)) \X (1..Len(u)) :
                /\ ij[1] <= ij[2]
                /\ \A k \in ij[1]..ij[2] : IsWordChar(u[k])
                /\ (ij[1] = 1 \/ ~IsWordChar(u[ij[1] - 1]))
                /\ (ij[2] = Len(u) \/ ~IsWordChar(u[ij[2] + 1])) } }

\* the first white-space-delimited word of s in upper case
FirstWordOf(s) ==
    LET t == trim(s)
        n == CHOOSE n \in 0..Len(t) :
                 /\ \A k \in 1..n : ~IsWhiteSpace(t[k])
                 /\ (n = Len(t) \/ IsWhiteSpace(t[n + 1]))
    IN  toUpperCase(SubSeq(t, 1, n))

\* the statement carries no dangerous keyword as a whole word and starts with a
\* safe keyword
ReadOnlyAdmissible(s) ==
    /\ WordsOf(s) \cap DangerousKeywords = {}
    /\ FirstWordOf(s) \in safeKeywords

C15_CacheBounded == Len(cache) <= maxCacheSize

\* the cache is full and the entry a finished call had written is no longer in it
C15_Witness ==
    /\ Len(cache) = maxCacheSize
    /\ \E p \in Callers :
        /\ callers[p].pc = "done"
        /\ callers[p].useCache
        /\ callers[p].api = 1
        /\ ~cacheHas(cache, callerKey(callers[p]))

\* ---- C22 ---------------------------------------------------------------
\* the remote call of caller p completes in this step and its result is cached
CallerStores(p) ==
    callers[p].pc = "api" /\ callers'[p].pc = "done" /\ callers[p].useCache

\* the keys present in cache c
cacheKeys(c) == { c[i].key : i \in 1..Len(c) }

\* C22: if two generateEmbedding calls with the same cache key and useCache = true
\* both start before either has stored its result, each misses and issues its own
\* remote call (no coalescing), and once both have finished the cache holds for
\* that key the vector of the call that completed last.
C22_NoCoalescingLastWriteWins ==
    [][ \A p \in Callers : \A q \in Callers \ {p} :
          /\ ( /\ CallerStarts(p)
               /\ apiKey
               /\ callers'[p].useCache
               /\ callers[q].pc = "api"
               /\ callers[q].useCache
               /\ callerKey(callers[q]) = callerKey(callers'[p])
               /\ ~cacheHas(cache, callerKey(callers'[p])) ) =>
                 /\ callers'[p].pc = "api"
                 /\ callers'[p].api = 1
          /\ ( /\ CallerStores(p)
               /\ callers[q].pc = "done"
               /\ callers[q].useCache
               /\ callers[q].api = 1
               /\ callerKey(callers[q]) = callerKey(callers[p]) ) =>
                 /\ callers[p].api = 1
                 /\ cacheHas(cache', callerKey(callers[p]))
                 /\ cacheGet(cache', callerKey(callers[p])) = callers'[p].result ]_vars

\* two calls for one key have both called the endpoint and got different vectors;
\* the cache holds one of them
C22_Witness ==
    \E p \in Callers : \E q \in Callers \ {p} :
        /\ callers[p].pc = "done" /\ callers[q].pc = "done"
        /\ callers[p].useCache /\ callers[q].useCache
        /\ callers[p].api = 1 /\ callers[q].api = 1
        /\ callerKey(callers[p]) = callerKey(callers[q])
        /\ callers[p].result # callers[q].result
        /\ returned[callerKey(callers[p])] = {callers[p].result, callers[q].result}
        /\ cacheGet(cache, callerKey(callers[p])) = callers[p].result

\* ---- C23 ---------------------------------------------------------------
\* C23 as stated: once a key has been written to the embedding cache, the vector
\* stored under that key never changes while the key is present, and a key leaves
\* the cache only through capacity eviction, under any sequence and interleaving
\* of the service's operations.
C23_EntriesImmutable ==
    [][ \A k \in cacheKeys(cache) :
          /\ cacheHas(cache', k) => cacheGet(cache', k) = cacheGet(cache, k)
          /\ ~cacheHas(cache', k) =>
                /\ Len(cache) >= maxCacheSize
                /\ k = cache[1].key
                /\ \E p \in Callers : CallerStores(p) ]_vars

\* C23 amended: the vector stored under a key changes only when a call that had
\* missed on that key stores its own result (last write wins), and a key leaves the
\* cache only through capacity eviction or through clearCache.
C23_EntriesChangeOnlyByWrite ==
    [][ \A k \in cacheKeys(cache) :
          /\ (cacheHas(cache', k) /\ cacheGet(cache', k) # cacheGet(cache, k)) =>
                \E p \in Callers :
                    /\ CallerStores(p)
                    /\ callerKey(callers[p]) = k
                    /\ cacheGet(cache', k) = callers'[p].result
          /\ ~cacheHas(cache', k) =>
                \/ cache' = <<>> /\ callers' = callers
                \/ /\ Len(cache) >= maxCacheSize
                   /\ k = cache[1].key
                   /\ \E p \in Callers : CallerStores(p) /\ callerKey(callers[p]) # k ]_vars

\* clearCache has removed the entry a finished call had stored
C23_Witness ==
    /\ cache = <<>>
    /\ \E p \in Callers :
        /\ callers[p].pc = "done"
        /\ callers[p].useCache
        /\ callers[p].api = 1

\* ---- C24 ---------------------------------------------------------------
\* C24: when a key not yet present is inserted into a cache at capacity, exactly
\* one entry is removed and it is the one inserted earliest among those present;
\* cache hits on an entry never change its eviction position (insertion order, not
\* LRU), so after maxSize + 1 distinct inserts the first-inserted key is absent
\* even if it was the most recently read.
C24_EvictsOldestInserted ==
    [][ \A p \in Callers :
          /\ ( /\ CallerStores(p)
               /\ ~cacheHas(cache, callerKey(callers[p]))
               /\ Len(cache) = maxCacheSize ) =>
                 /\ cacheKeys(cache) \ cacheKeys(cache') = {cache[1].key}
                 /\ Len(cache') = maxCacheSize
                 /\ \A i \in 1..(maxCacheSize - 1) : cache'[i] = cache[i + 1]
                 /\ cache'[maxCacheSize].key = callerKey(callers[p])
          /\ ( /\ CallerStarts(p)
               /\ callers'[p].useCache
               /\ cacheHas(cache, callerKey(callers'[p])) ) =>
                 cache' = cache ]_vars

\* a call was answered from the cache, and its key has since been evicted from the
\* full cache although it was the last one read
C24_Witness ==
    /\ Len(cache) = maxCacheSize
    /\ \E p \in Callers :
        /\ callers[p].pc = "done"
        /\ callers[p].useCache
        /\ callers[p].api = 0
        /\ callers[p].result \in Vectors
        /\ ~cacheHas(cache, callerKey(callers[p]))
        /\ \A q \in Callers \ {p} : callers[q].api = 1

\* ---- C29 ---------------------------------------------------------------
\* C29: a cache write for a key that is already present (the second of two
\* concurrent misses for the same key) removes no other entry: an entry is evicted
\* only when a key not yet present is inserted into a full cache.
C29_RewriteEvictsNothing ==
    [][ \A p \in Callers :
          ( CallerStores(p) /\ cacheHas(cache, callerKey(callers[p])) ) =>
              cacheKeys(cache') = cacheKeys(cache) ]_vars

\* ---- C21 ---------------------------------------------------------------
\* article a fails in this step
ArticleFails(a) ==
    /\ backfill.pc = "batch"
    /\ a \in DOMAIN backfill.state
    /\ backfill.state[a] \in {"pending", "embedded"}
    /\ a \in DOMAIN backfill'.state
    /\ backfill'.state[a] = "failed"

\* C21: in the embedding backfill, a failure to embed or to update one article
\* does not abort the run: the error is logged and counted, the other articles of
\* the same batch are still updated, and the following batches are still
\* processed.
C21_FailureDoesNotAbort ==
    [][ /\ \A a \in Articles : ArticleFails(a) =>
              /\ backfill'.pc = "batch"
              /\ backfill'.errors = backfill.errors + 1
              /\ backfill'.rows = backfill.rows
              /\ \A b \in DOMAIN backfill.state \ {a} :
                    backfill'.state[b] = backfill.state[b]
              /\ backfill'.embedding = backfill.embedding
        /\ (backfill.pc = "batch" /\ backfill'.pc # "batch") =>
              /\ \A b \in DOMAIN backfill.state :
                    \/ backfill.state[b] = "failed"
                    \/ backfill.state[b] = "updated" /\ backfill.embedding[b]
              /\ backfill'.processed = backfill.processed + Len(backfill.rows)
              /\ backfill'.pc =
                    (IF backfill'.processed < backfill.totalToProcess
                     THEN "select" ELSE "done") ]_vars

\* after a batch in which an article failed, a later batch is in flight and one of
\* its articles has been updated
C21_Witness ==
    /\ backfill.pc = "batch"
    /\ backfill.processed >= BATCH_SIZE
    /\ backfill.errors >= 1
    /\ \E a \in DOMAIN backfill.state :
        /\ backfill.state[a] = "updated"
        /\ a \notin backfill.failed

\* ---- C28 ---------------------------------------------------------------
\* C28: when the backfill batch loop terminates, every targeted article whose
\* embedding and update succeed when attempted has a non-null embedding, even if
\* other articles fail on every attempt: a persistently failing article does not
\* keep later articles from being selected before the loop ends.
C28_GoodArticlesEmbedded ==
    backfill.pc = "done" =>
        \A a \in Articles : a \notin backfill.failed => backfill.embedding[a]

\* ---- C25 ---------------------------------------------------------------
\* C25: in vector retrieval (pgvector_search), the similarity = 1 - distance
\* transform is applied only when the selected distance metric is cosine (<=>); it
\* is not applied when the metric is L2 (<->) or negative inner product (<#>).
C25_TransformOnlyForCosine ==
    \A i \in 1..Len(vsearch.rows) :
        vsearch.rows[i].similarity = 10 - vsearch.rows[i].distance =>
            vsearch.distanceMetric = "<=>"

\* ---- C26 ---------------------------------------------------------------
\* C26: for every query, analyzeQuery returns the mode that the router returns for
\* (query, auto) together with a rationale list that contains the rationale of the
\* rule that decided that mode: whenever the mode is text through the
\* test/debug-marker rule or the short-query rule, or hybrid through the
\* interrogative/length > 50 rule, the matching rationale string is present.
C26_RationaleOfDecidingRule ==
    analysis # NoAnalysis =>
        /\ analysis.mode = detectSearchMode(userQuery, "auto")
        /\ IsTestQuery(Normalized(userQuery)) => RTest \in analysis.reasoning
        /\ ( /\ ~IsTestQuery(Normalized(userQuery))
             /\ analysis.mode = "text" ) => RShort \in analysis.reasoning
        /\ analysis.mode = "hybrid" =>
                (RComplex \in analysis.reasoning \/ RLong \in analysis.reasoning)

\* ---- C30 ---------------------------------------------------------------
\* C30: in the metadata returned by IntelligentSearchService.search,
\* embeddingGenerated is true only if an embedding was actually obtained (from the
\* remote endpoint or the cache) during that request; in particular it is false
\* when hybrid search short-circuits on an empty text pre-filter.
C30_EmbeddingGeneratedIsTruthful ==
    ( /\ pc = "done"
      /\ req.entry = "intelligent"
      /\ searchMetadata(req).embeddingGenerated ) =>
        /\ calls.embed >= 1
        /\ queryVector # <<>>

\* ---- C27 ---------------------------------------------------------------
\* C27: every CoreTools tool handler that acquires a pool client (diagnose,
\* explore, query, insert, manage_vectors, vectorize_row) releases it exactly once
\* before returning, on every path: success, early return (e.g. explore type
\* 'schema' without target) and error (failed SQL or failed embedding generation);
\* after any sequence of tool calls the number of checked-out clients is zero.
C27_ClientsReleased ==
    /\ (handler.pc = "done" /\ handler.client) => handler.releases = 1
    /\ handler.pc = "idle" => clients = 0

====
